---- MODULE Spec2Model ----
(***************************************************************************)
(* tornet (fork): exit-policy editor (set_tor_exit_policy), the policy     *)
(* applier (apply_prefer_ru_then_fallback), the rotation scheduler         *)
(* (change_ip_repeatedly) and the interrupt handler (signal_handler) of    *)
(* src/tornet/tornet.py.                                                   *)
(*                                                                         *)
(* Text is a sequence of one-character strings, so that strip, startswith, *)
(* split, lower, int() and readlines are computed as Python computes them. *)
(***************************************************************************)
EXTENDS Integers, Sequences, FiniteSets, TLC

\* ------------------------------------------------------------------ bounds

\* lines of the initial torrc
MaxLines == 2
\* policy writes in a run of the editor alone
MaxWrites == 2
\* largest --count
MaxCount == 2
\* iterations explored of the unbounded loop (--count 0)
MaxCycles == 2
\* signals delivered in one run
MaxInterrupts == 1

\* longest --interval string tried on parse_interval alone
MaxIntervalLen == 4

\* calls of parse_interval made on one string
MaxCalls == 2

\* most comma-separated entries of a --fallback-exits string given to the applier alone
MaxParts == 3

\* ------------------------------------------------------------- str helpers

\* the characters str.strip() removes, among those the model's texts use
Whitespace == {" ", "\t", "\n", "\r", "\f"}

RECURSIVE lstrip(_)
lstrip(s) ==
    IF s = <<>> THEN <<>>
    ELSE IF Head(s) \in Whitespace THEN lstrip(Tail(s))
    ELSE s

RECURSIVE rstrip(_)
rstrip(s) ==
    IF s = <<>> THEN <<>>
    ELSE IF s[Len(s)] \in Whitespace THEN rstrip(SubSeq(s, 1, Len(s) - 1))
    ELSE s

\* str.strip()
strip(s) == rstrip(lstrip(s))

\* str.startswith(p)
startswith(s, p) == Len(s) >= Len(p) /\ SubSeq(s, 1, Len(p)) = p

\* str.lower() on the letters the model's texts use
LowerOf(c) ==
    CASE c = "A" -> "a" [] c = "D" -> "d" [] c = "E" -> "e" [] c = "L" -> "l"
      [] c = "N" -> "n" [] c = "R" -> "r" [] c = "S" -> "s" [] c = "U" -> "u"
      [] c = "Y" -> "y" [] OTHER -> c

lower(s) == [k \in 1..Len(s) |-> LowerOf(s[k])]

\* sep.join(parts)
RECURSIVE join(_, _)
join(sep, parts) ==
    IF parts = <<>> THEN <<>>
    ELSE IF Len(parts) = 1 THEN parts[1]
    ELSE parts[1] \o sep \o join(sep, Tail(parts))

\* str.split(sep) for a one-character sep: the pieces between the separators
RECURSIVE split_acc(_, _, _)
split_acc(s, sep, cur) ==
    IF s = <<>> THEN <<cur>>
    ELSE IF Head(s) = sep THEN <<cur>> \o split_acc(Tail(s), sep, <<>>)
    ELSE split_acc(Tail(s), sep, Append(cur, Head(s)))

split(s, sep) == split_acc(s, sep, <<>>)

\* the least element of a non-empty set of numbers
SetMin(S) == CHOOSE m \in S : \A k \in S : m <= k

\* index of the first occurrence of character c in s, 0 when there is none
find(s, c) ==
    LET hits == {k \in 1..Len(s) : s[k] = c}
    IN  IF hits = {} THEN 0 ELSE SetMin(hits)

\* ------------------------------------------------------------ torrc text

KW_ExitNodes == <<"E", "x", "i", "t", "N", "o", "d", "e", "s">>

KW_StrictNodes == <<"S", "t", "r", "i", "c", "t", "N", "o", "d", "e", "s">>

\* "# --- tornet exit policy ---"
MarkerBody ==
    <<"#", " ", "-", "-", "-", " ", "t", "o", "r", "n", "e", "t", " ",
      "e", "x", "i", "t", " ", "p", "o", "l", "i", "c", "y", " ", "-", "-", "-">>

\* the element appended at line 397: "\n# --- tornet exit policy ---\n"
MARKER == <<"\n">> \o MarkerBody \o <<"\n">>

\* a character with the one after it ("" at the end of the text)
WithNext(s) == [k \in 1..Len(s) |-> <<s[k], IF k < Len(s) THEN s[k + 1] ELSE "">>]

\* the "\r" of a "\r\n" pair goes
NotCrOfCrLf(p) == ~(p[1] = "\r" /\ p[2] = "\n")

\* text-mode open(..., "r") with newline=None: "\r\n" and "\r" read as "\n"
universal_newlines(s) ==
    LET kept == SelectSeq(WithNext(s), NotCrOfCrLf)
    IN  [k \in 1..Len(kept) |-> IF kept[k][1] = "\r" THEN "\n" ELSE kept[k][1]]

\* the lines of s from position st on, nl being the positions of its "\n"
RECURSIVE lines_from(_, _, _)
lines_from(s, nl, st) ==
    IF st > Len(s) THEN <<>>
    ELSE LET ahead == {k \in nl : k >= st}
             e == IF ahead = {} THEN Len(s) ELSE SetMin(ahead)
         IN  <<SubSeq(s, st, e)>> \o lines_from(s, nl, e + 1)

\* the lines of a text, each with its "\n" when it has one
keepends(s) == lines_from(s, {k \in 1..Len(s) : s[k] = "\n"}, 1)

\* a byte that no UTF-8 text contains (0xFF), as it stands in the file
BadByte == "0xFF"

IsDecodable(b) == b # BadByte

\* line 384: open(path, "r", encoding="utf-8", errors="ignore") leaves out
\* the bytes that cannot be decoded
decode(bytes) == SelectSeq(bytes, IsDecodable)

\* line 385: f.readlines() of the file opened in text mode: the bytes decoded,
\* the line ends translated, the text cut after each "\n"
readlines(text) == keepends(universal_newlines(decode(text)))

\* f.writelines(lines): the strings one after the other ("\n" stays "\n")
RECURSIVE writelines(_)
writelines(lines) ==
    IF lines = <<>> THEN <<>> ELSE Head(lines) \o writelines(Tail(lines))

\* a plausible slip: the test without the strip()
is_policy_line_nostrip(s) ==
    startswith(s, KW_ExitNodes) \/ startswith(s, KW_StrictNodes)

is_policy_line(s) ==
    LET s2 == strip(s)
    IN  startswith(s2, KW_ExitNodes) \/ startswith(s2, KW_StrictNodes)

NotPolicyLine(ln) == ~is_policy_line(ln)

\* a plausible slip: the earlier directive lines left in place
new_lines_nofilter(lines, exit_nodes, strict) ==
    lines
      \o <<MARKER>>
      \o (IF strip(exit_nodes) # <<>>
          THEN <<KW_ExitNodes \o <<" ">> \o strip(exit_nodes) \o <<"\n">>>>
          ELSE <<>>)
      \o <<KW_StrictNodes \o <<" ">> \o <<(IF strict THEN "1" ELSE "0")>> \o <<"\n">>>>

\* lines 394-400: the lines written back
new_lines(lines, exit_nodes, strict) ==
    SelectSeq(lines, NotPolicyLine)
      \o <<MARKER>>
      \o (IF strip(exit_nodes) # <<>>
          THEN <<KW_ExitNodes \o <<" ">> \o strip(exit_nodes) \o <<"\n">>>>
          ELSE <<>>)
      \o <<KW_StrictNodes \o <<" ">> \o <<(IF strict THEN "1" ELSE "0")>> \o <<"\n">>>>

\* the file content a successful set_tor_exit_policy leaves
set_tor_exit_policy(text, exit_nodes, strict) ==
    writelines(new_lines(readlines(text), exit_nodes, strict))

\* ---------------------------------------------------------- parse_interval

Digits == <<"0", "1", "2", "3", "4", "5", "6", "7", "8", "9">>

IsDigit(c) == \E d \in 1..10 : Digits[d] = c

DigitVal(c) == (CHOOSE d \in 1..10 : Digits[d] = c) - 1

\* value of a string of digits and single inner underscores
RECURSIVE digits_value(_, _)
digits_value(s, acc) ==
    IF s = <<>> THEN acc
    ELSE IF Head(s) = "_" THEN digits_value(Tail(s), acc)
    ELSE digits_value(Tail(s), 10 * acc + DigitVal(Head(s)))

\* a well-formed decimal literal body: digits, with single underscores between them
IsDecimal(s) ==
    /\ s # <<>>
    /\ IsDigit(s[1]) /\ IsDigit(s[Len(s)])
    /\ \A k \in 1..Len(s) : IsDigit(s[k]) \/ s[k] = "_"
    /\ \A k \in 1..(Len(s) - 1) : ~(s[k] = "_" /\ s[k + 1] = "_")

\* int(s): surrounding whitespace, one optional sign, decimal digits;
\* ok = FALSE stands for ValueError
int(s) ==
    LET t == strip(s)
        signed == t # <<>> /\ t[1] \in {"+", "-"}
        body == IF signed THEN Tail(t) ELSE t
    IN  IF IsDecimal(body)
        THEN [ok |-> TRUE,
              val |-> IF signed /\ t[1] = "-"
                      THEN 0 - digits_value(body, 0) ELSE digits_value(body, 0)]
        ELSE [ok |-> FALSE, val |-> 0]

\* str.split("-", 1): at most one cut, at the first "-"
split_once(s, sep) ==
    LET k == find(s, sep)
    IN  IF k = 0 THEN <<s>> ELSE <<SubSeq(s, 1, k - 1), SubSeq(s, k + 1, Len(s))>>

\* a plausible slip: the upper end of the range left out (randrange for randint)
parse_interval_exclusive(interval_str) ==
    IF find(interval_str, "-") # 0
    THEN LET parts == split_once(interval_str, "-")
             start == int(parts[1])
             end == int(parts[2])
         IN  IF start.ok /\ end.ok THEN start.val..(end.val - 1) ELSE {}
    ELSE LET n == int(interval_str) IN IF n.ok THEN {n.val} ELSE {}

\* the values one call of parse_interval can return; the empty set is the
\* ValueError branch (int() of a non-number, or randint of an empty range),
\* which ends the process with code 8
parse_interval(interval_str) ==
    IF find(interval_str, "-") # 0
    THEN LET parts == split_once(interval_str, "-")
             start == int(parts[1])
             end == int(parts[2])
         IN  IF start.ok /\ end.ok THEN start.val..end.val ELSE {}
    ELSE LET n == int(interval_str) IN IF n.ok THEN {n.val} ELSE {}

\* ------------------------------------------------------- fallback policy

\* "{c}"
brace(c) == <<"{">> \o c \o <<"}">>

NonEmptyStripped(c) == strip(c) # <<>>

\* a plausible slip: the codes joined without their braces
fallback_exit_nodes_unbraced(fallback_exits) ==
    LET fb == lower(strip(fallback_exits))
    IN  IF fb = <<"a", "n", "y">> \/ fb = <<>>
        THEN <<>>
        ELSE LET kept == SelectSeq(split(fb, ","), NonEmptyStripped)
             IN  join(<<",">>, [k \in 1..Len(kept) |-> lower(strip(kept[k]))])

\* a plausible slip: one pair of braces around the whole list
fallback_exit_nodes_one_group(fallback_exits) ==
    LET fb == lower(strip(fallback_exits))
    IN  IF fb = <<"a", "n", "y">> \/ fb = <<>>
        THEN <<>>
        ELSE LET kept == SelectSeq(split(fb, ","), NonEmptyStripped)
             IN  brace(join(<<",">>, [k \in 1..Len(kept) |-> lower(strip(kept[k]))]))

\* lines 427-436: the exit_nodes argument of the fallback write
fallback_exit_nodes(fallback_exits) ==
    LET fb == lower(strip(fallback_exits))
    IN  IF fb = <<"a", "n", "y">> \/ fb = <<>>
        THEN <<>>
        ELSE LET kept == SelectSeq(split(fb, ","), NonEmptyStripped)
                 countries == [k \in 1..Len(kept) |-> lower(strip(kept[k]))]
             IN  join(<<",">>, [k \in 1..Len(countries) |-> brace(countries[k])])

\* ------------------------------------------------------------ sample data

L_socks == <<"S", "o", "c", "k", "s", "P", "o", "r", "t", " ", "9", "0", "5", "0">>

L_exit == KW_ExitNodes \o <<" ", "{", "u", "s", "}">>

\* a directive behind leading blanks
L_strict == <<" ", " ">> \o KW_StrictNodes \o <<" ", "1">>

\* a comment that mentions a directive
L_comment == <<"#", " ">> \o KW_ExitNodes \o <<" ", "{", "u", "s", "}">>

\* a line ended "\r\n"
L_crlf == <<"L", "o", "g", "\r">>

\* a comment with a byte in it that is not UTF-8
L_badbyte == <<"#", BadByte, "x">>

\* line bodies of the initial torrc; MarkerBody is a marker left by an earlier run
SampleLines == {L_socks, L_exit, L_strict, L_comment, L_crlf, L_badbyte, MarkerBody}

\* every text of at most n sample lines, each ended by "\n"
RECURSIVE TextsUpTo(_)
TextsUpTo(n) ==
    IF n = 0 THEN {<<>>}
    ELSE LET shorter == TextsUpTo(n - 1)
         IN  shorter \cup {t \o b \o <<"\n">> : t \in shorter, b \in SampleLines}

\* the initial torrc: up to MaxLines lines, the last one with or without its "\n"
\* a comment naming a directive, a directive, and a last line without an end
F_mixed == L_comment \o <<"\n">> \o L_exit \o <<"\n">> \o L_socks

InitialFiles ==
    TextsUpTo(MaxLines)
      \cup {t \o b : t \in TextsUpTo(MaxLines - 1), b \in SampleLines \ {L_crlf}}
      \cup {F_mixed}

X_ru == <<"{", "r", "u", "}">>

X_de_nl == <<"{", "d", "e", "}", ",", "{", "n", "l", "}">>

\* exit_nodes arguments: none, one country, two countries with blanks around
ExitNodeArgs == {<<>>, X_ru, <<" ">> \o X_de_nl \o <<" ">>}

FB_any == <<"a", "n", "y">>

FB_ANY_padded == <<" ", "A", "N", "Y", " ">>

FB_de_nl == <<"d", "e", ",", "n", "l">>

\* upper case, blanks, and empty entries from leading, doubled and trailing commas
FB_messy == <<",", "D", "E", ",", ",", " ", "n", "l", ",">>

FB_commas == <<",", ",">>

FallbackValues == {<<>>, FB_any, FB_ANY_padded, FB_de_nl, FB_messy, FB_commas}

IV_2 == <<"2">>

IV_1_2 == <<"1", "-", "2">>

IV_abc == <<"a", "b", "c">>

\* a range whose ends are the wrong way round
IV_3_1 == <<"3", "-", "1">>

IntervalValues == {IV_2, IV_1_2, IV_abc, IV_3_1}

\* entries of the --fallback-exits strings given to the applier alone: two
\* codes, a code in capitals with blanks around it, an empty entry, the word
\* any with a capital and blanks around it, and a pair of braces
FallbackParts ==
    {<<"r", "u">>, <<"d", "e">>, <<" ", "N", "L", " ">>, <<>>,
     <<" ", "A", "n", "y", " ">>, <<"{", "}">>}

\* every list of 1 to n of these entries
RECURSIVE PartLists(_)
PartLists(n) ==
    IF n = 1 THEN {<<p>> : p \in FallbackParts}
    ELSE LET shorter == PartLists(n - 1)
         IN  shorter \cup {l \o <<p>> : l \in {q \in shorter : Len(q) = n - 1},
                                         p \in FallbackParts}

\* the strings these lists are written as
FallbackStrings == {join(<<",">>, l) : l \in PartLists(MaxParts)}

\* characters of the interval strings given to parse_interval alone
IntervalChars == {"0", "1", "2", "-", "a", " "}

\* every string of at most n of these characters
RECURSIVE StringsUpTo(_)
StringsUpTo(n) ==
    IF n = 0 THEN {<<>>}
    ELSE LET shorter == StringsUpTo(n - 1)
         IN  shorter \cup {t \o <<c>> : t \in shorter, c \in IntervalChars}

IntervalStrings == StringsUpTo(MaxIntervalLen)

\* the torrc of a run of main: both directives set, one of them indented and
\* on a last line without its "\n" (the editor alone is run on InitialFiles)
MainFiles == {L_socks \o <<"\n">> \o L_exit \o <<"\n">> \o L_strict}

\* ------------------------------------------------------------------ state

VARIABLES
    file,            \* content of the torrc on disk
    wr,              \* the write of set_tor_exit_policy under way, if any
    mgr,             \* what detect_service_manager() returned last, "unset" before
    first_mgr,       \* what detect_service_manager() returned first, "unset" before
    last_rc,         \* exit status the latest service command returned, -1 while none has
    svc,             \* how far the service call under way has come
    count,           \* args.count
    interval,        \* args.interval
    prefer_ru,       \* args.prefer_ru
    fallback_exits,  \* args.fallback_exits
    mode,            \* "stop", "ip", "auto_fix" for --stop, --ip, --auto-fix, else "run"
    torrc_path,      \* "unset", "none" (None) or "path"
    pc,              \* position of the main code
    hpc,             \* position inside signal_handler, "none" outside it
    hstack,          \* positions of the handlers a later signal has suspended
    phase,           \* 1 preferred, 2 fallback, 0 outside the applier
    i,               \* iterations of the rotation loop completed
    sleep_time,      \* the value parse_interval returned last
    exit_code,       \* -1 while running, -15 killed by SIGTERM, else the status
    ip1,             \* outcome of the preferred probe
    ip2,             \* outcome of the fallback probe
    cnt,             \* how often each external action was started
    visits,          \* entries into each applier state
    orig,            \* the torrc before the first write
    prevFile,        \* the torrc before the latest successful write
    lastPol,         \* arguments of the latest successful write
    prevPol,         \* arguments of the successful write before it
    nwrites,         \* successful writes
    int_at,          \* pc at which the first signal arrived, "never" before
    interrupts       \* signals delivered

env == <<mgr, first_mgr, last_rc, svc>>

args == <<count, interval, prefer_ru, fallback_exits, mode>>

\* what is on disk and in the buffer of the open file
disk == <<file, wr>>

\* what the writes so far were
hist == <<orig, prevFile, lastPol, prevPol, nwrites>>

editor == <<file, wr, orig, prevFile, lastPol, prevPol, nwrites>>

sched == <<i, sleep_time>>

\* the handler that runs and the handlers under it
hnd == <<hpc, hstack>>

signals == <<int_at, interrupts>>

vars ==
    <<file, wr, mgr, first_mgr, last_rc, svc, count, interval, prefer_ru, fallback_exits, mode,
      torrc_path, pc, hpc, hstack, phase, i, sleep_time, exit_code, ip1, ip2, cnt, visits,
      orig, prevFile, lastPol, prevPol, nwrites, int_at, interrupts>>

NoPol == [exit_nodes |-> <<>>, strict |-> FALSE]

\* no write under way. st is "opened" once open(path, "w") has truncated the
\* file and "buffered" once writelines has begun to hand the new content to the
\* file object; lines is new_lines, buf the text they make, old the text read,
\* pol the arguments
NoWrite == [st |-> "idle", lines |-> <<>>, buf |-> <<>>, old |-> <<>>, pol |-> NoPol]

ZeroCnt ==
    [restarts |-> 0, probes |-> 0, starts |-> 0, reloads |-> 0, stops |-> 0,
     rprobes |-> 0, okprobes |-> 0, reports |-> 0, pkills |-> 0, notices |-> 0,
     shown |-> 0]

ApStates == {"TryPreferred", "VerifyPreferred", "TryFallback", "VerifyFallback", "Done"}

ZeroVisits == [s \in ApStates |-> 0]

Visit(s) == visits' = [visits EXCEPT ![s] = @ + 1]

\* what every run starts from, whatever its arguments and its host
InitCommon ==
    /\ mgr = "unset"
    /\ first_mgr = "unset"
    /\ last_rc = -1
    /\ svc = "idle"
    /\ wr = NoWrite
    /\ hpc = "none"
    /\ hstack = <<>>
    /\ phase = 0
    /\ i = 0
    /\ sleep_time = 0
    /\ exit_code = -1
    /\ ip1 = "unset"
    /\ ip2 = "unset"
    /\ cnt = ZeroCnt
    /\ visits = ZeroVisits
    /\ orig = file
    /\ prevFile = file
    /\ lastPol = NoPol
    /\ prevPol = NoPol
    /\ nwrites = 0
    /\ int_at = "never"
    /\ interrupts = 0

\* sys.exit(code), from error() or from signal_handler
Exit(code) ==
    /\ pc' = "exited"
    /\ hpc' = "none"
    /\ hstack' = <<>>
    /\ exit_code' = code

\* the step is inside a call that has not returned yet
Stay ==
    /\ pc' = pc
    /\ UNCHANGED hnd
    /\ exit_code' = exit_code

Running == pc \notin {"exited", "returned"}

\* ----------------------------------------------------- set_tor_exit_policy

\* lines 402-406: what a write can have put on disk before it is over or
\* fails. The file was truncated by open(path, "w"); the content reaches the
\* disk from its start on, and a failure (disk full, file size limit) leaves
\* any prefix of it
write_failure_leaves(new) == {SubSeq(new, 1, k) : k \in 0..Len(new)}

\* lines 404-406: what a write that fails leaves on disk when on_disk is
\* there already
flushed_further(new, on_disk) ==
    {p \in write_failure_leaves(new) : Len(p) >= Len(on_disk)}

\* line 404: what f.writelines(lines) can have given to the file object when
\* a signal stops it: the first k strings. How much of that is on disk is
\* another matter (WriteLines)
handed_over(lines) == {writelines(SubSeq(lines, 1, k)) : k \in 0..Len(lines)}

\* SystemExit, from sys.exit(code) in error() or in signal_handler, leaves the
\* process; "except Exception" does not catch it. When it comes out of
\* signal_handler and the signal had interrupted the body of
\* "with open(path, "w") as f" once writelines had begun, the file is closed on
\* the way out and what writelines had handed over goes to disk; a failure of
\* that is caught at line 405 and ends the process with 23
Unwind(code) ==
    /\ wr' = wr
    /\ IF wr.st = "buffered"
       THEN \/ /\ file' \in {q \in handed_over(wr.lines) : Len(q) >= Len(file)}
               /\ Exit(code)
            \/ /\ file' \in flushed_further(wr.buf, file)
               /\ Exit(23)
       ELSE file' = file /\ Exit(code)

\* lines 380-403: the path test, the read, the new lines, open(path, "w")
WriteBegin(exit_nodes, strict) ==
    /\ wr.st = "idle"
    /\ \/ /\ torrc_path # "path"
          /\ Exit(20)
          /\ UNCHANGED editor
       \/ /\ torrc_path = "path"
          /\ Exit(22)
          /\ UNCHANGED editor
       \/ /\ torrc_path = "path"
          /\ Exit(23)
          /\ UNCHANGED editor
       \/ /\ torrc_path = "path"
          /\ file' = <<>>
          /\ wr' = [st |-> "opened",
                    lines |-> new_lines(readlines(file), exit_nodes, strict),
                    buf |-> set_tor_exit_policy(file, exit_nodes, strict),
                    old |-> file,
                    pol |-> [exit_nodes |-> exit_nodes, strict |-> strict]]
          /\ Stay
          /\ UNCHANGED hist

\* line 404: f.writelines(new_lines) hands the new content to the file
\* object, which writes its buffers out when they are full: any part of the
\* content from its start can be on disk before the file is closed, a part
\* that ends inside a string included (a write the system cut short, as under
\* a file size limit, leaves the rest in the buffer and raises nothing yet).
\* A write that fails ends the process with 23
WriteLines ==
    /\ wr.st = "opened"
    /\ \/ /\ file' \in write_failure_leaves(wr.buf)
          /\ wr' = [wr EXCEPT !.st = "buffered"]
          /\ Stay
       \/ /\ file' \in write_failure_leaves(wr.buf)
          /\ wr' = NoWrite
          /\ Exit(23)
    /\ UNCHANGED hist

\* lines 403-406: the end of the with block closes the file, which writes
\* the buffer; Continue says where the caller goes on after the return
WriteClose(Continue) ==
    /\ wr.st = "buffered"
    /\ wr' = NoWrite
    /\ \/ /\ file' = wr.buf
          /\ prevFile' = wr.old
          /\ prevPol' = lastPol
          /\ lastPol' = wr.pol
          /\ nwrites' = nwrites + 1
          /\ Continue
          /\ exit_code' = exit_code
          /\ UNCHANGED orig
       \/ /\ file' \in flushed_further(wr.buf, file)
          /\ Exit(23)
          /\ UNCHANGED hist

\* a plausible slip: the missing path swallowed, the caller carrying on
SetTorExitPolicy_swallow(exit_nodes, strict, Continue) ==
    \/ /\ wr.st = "idle"
       /\ torrc_path # "path"
       /\ Continue
       /\ exit_code' = exit_code
       /\ UNCHANGED editor
    \/ /\ torrc_path = "path"
       /\ WriteBegin(exit_nodes, strict)
    \/ WriteLines
    \/ WriteClose(Continue)

\* lines 374-406, one step at a time: a signal can arrive between them
SetTorExitPolicy(exit_nodes, strict, Continue) ==
    \/ WriteBegin(exit_nodes, strict)
    \/ WriteLines
    \/ WriteClose(Continue)

\* ------------------------------------------------------- the editor alone

\* a caller that applies policies one after the other to one torrc; a call
\* under way goes on with the arguments it was made with
InitEditor ==
    /\ file \in InitialFiles
    /\ count = 0
    /\ interval = IV_2
    /\ prefer_ru = FALSE
    /\ fallback_exits = <<>>
    /\ torrc_path \in {"path", "none"}
    /\ pc = "editor"
    /\ mode = "run"
    /\ InitCommon

EditorWrite ==
    /\ pc = "editor"
    /\ nwrites < MaxWrites
    /\ \E x \in (IF wr.st = "idle" THEN ExitNodeArgs ELSE {wr.pol.exit_nodes}),
          strict \in (IF wr.st = "idle" THEN BOOLEAN ELSE {wr.pol.strict}) :
           SetTorExitPolicy(x, strict, pc' = "editor" /\ UNCHANGED hnd)
    /\ UNCHANGED <<env, args, torrc_path, phase, sched, ip1, ip2, cnt, visits, signals>>

NextEditor == EditorWrite

SpecEditor == InitEditor /\ [][NextEditor]_vars

\* ------------------------------------------------- parse_interval alone

\* a caller that asks parse_interval for a value, several times for one string
InitInterval ==
    /\ interval \in IntervalStrings
    /\ file = <<>>
    /\ count = 0
    /\ prefer_ru = FALSE
    /\ fallback_exits = <<>>
    /\ torrc_path = "unset"
    /\ pc = "parse"
    /\ mode = "run"
    /\ InitCommon

\* lines 306-315: one call; ValueError ends the process with code 8
ParseInterval ==
    /\ pc = "parse"
    /\ i < MaxCalls
    /\ IF parse_interval(interval) = {}
       THEN Exit(8) /\ UNCHANGED sched
       ELSE /\ sleep_time' \in parse_interval(interval)
            /\ i' = i + 1
            /\ UNCHANGED <<pc, hnd, exit_code>>
    /\ UNCHANGED <<env, args, editor, torrc_path, phase, ip1, ip2, cnt, visits, signals>>

NextInterval == ParseInterval

SpecInterval == InitInterval /\ [][NextInterval]_vars

\* ------------------------------------------------------------- exceptions

\* the loop goes round once more: while True, or range(count) not used up
MoreIterations == IF count = 0 THEN i < MaxCycles ELSE i < count

\* positions of a suspended handler inside the try block of lines 328-331
InPkillTry == {"h_pkill", "h_pkilling"}

\* an exception that is not SystemExit comes out of subprocess.run (lines
\* 76-81 catch CalledProcessError only) and goes up the calls under way: those
\* of signal_handler when the command was its stop, then the code the signal
\* had interrupted. It ends the process with a traceback and status 1 unless
\* that code is inside a try block that catches it:
\*   lines 328-331 (pkill, in stop_services) swallow it: a pkill not yet
\*   started is left out and line 332 comes next, one under way can still
\*   have sent its signal; the innermost suspended handler that is there
\*   takes it, else main;
\*   lines 227-237 (the scan of /proc in is_tor_running, part of a probe under
\*   way) and 164-168 (ensure_pip) swallow it: the handler is given up and the
\*   interrupted code goes on;
\*   lines 383-387 turn it into exit 22, lines 402-406 into exit 23, the file
\*   being closed first, lines 308-315 into exit 8 (a ValueError only), lines
\*   171-185 into exit 5, lines 211-215 into exit 7
Raised ==
    \/ /\ \E k \in 1..Len(hstack) :
             /\ hstack[k] \in InPkillTry
             /\ \A j \in (k + 1)..Len(hstack) : hstack[j] \notin InPkillTry
             /\ hpc' = (IF hstack[k] = "h_pkill" THEN "h_exit" ELSE "h_pkilling")
             /\ hstack' = SubSeq(hstack, 1, k - 1)
       /\ pc' = pc
       /\ exit_code' = exit_code
       /\ svc' = "idle"
       /\ UNCHANGED disk
    \/ /\ hpc # "none"
       /\ \A j \in 1..Len(hstack) : hstack[j] \notin InPkillTry
       /\ pc \in {"stop_pkill", "stop_pkilling"}
       /\ pc' = (IF pc = "stop_pkill" THEN "stop_notice" ELSE "stop_pkilling")
       /\ hpc' = "none"
       /\ hstack' = <<>>
       /\ exit_code' = exit_code
       /\ svc' = "idle"
       /\ UNCHANGED disk
    \/ /\ hpc # "none"
       /\ \A j \in 1..Len(hstack) : hstack[j] \notin InPkillTry
       /\ pc \in {"loop_probing", "showing_ip", "fix_pip"}
       /\ pc' = pc
       /\ hpc' = "none"
       /\ hstack' = <<>>
       /\ exit_code' = exit_code
       /\ svc' = "idle"
       /\ UNCHANGED disk
    \/ /\ wr.st = "idle"
       /\ Exit(1)
       /\ UNCHANGED <<svc, disk>>
    \/ /\ pc = "ap_write" /\ wr.st = "idle" /\ torrc_path = "path"
       /\ Exit(22) \/ Exit(23)
       /\ UNCHANGED <<svc, disk>>
    \/ /\ wr.st = "opened"
       /\ Exit(23)
       /\ UNCHANGED <<svc, disk>>
    \/ /\ wr.st = "buffered"
       /\ file' \in flushed_further(wr.buf, file)
       /\ Exit(23)
       /\ UNCHANGED <<svc, wr>>
    \/ /\ pc = "loop_head" /\ MoreIterations
       /\ Exit(8)
       /\ UNCHANGED <<svc, disk>>
    \/ /\ pc = "fix_pip"
       /\ Exit(5)
       /\ UNCHANGED <<svc, disk>>
    \/ /\ pc = "fix_tor"
       /\ Exit(7)
       /\ UNCHANGED <<svc, disk>>

\* ---------------------------------------------------------- service calls

\* lines 83-89: what detect_service_manager() can return; it is called anew
\* by every service action and reads the host as it is at that moment
Managers == {"systemctl", "service", "none"}

\* lines 68-81, called with use_sudo=True, check=False: "no_sudo" is the
\* process neither root nor able to use sudo (exit 2); "rc0" and "rc1" are the
\* command run, with exit status zero and non-zero; "raised" is an exception
\* out of subprocess.run that run_cmd does not catch (the command cannot be
\* executed, its output cannot be decoded)
run_cmd_outcomes == {"no_sudo", "rc0", "rc1", "raised"}

\* lines 93 and 108: detect_service_manager(); no manager ends the process with 3
ServiceDetect ==
    /\ svc = "idle"
    /\ UNCHANGED <<cnt, last_rc>>
    /\ \E m \in Managers :
          /\ mgr' = m
          /\ first_mgr' = (IF first_mgr = "unset" THEN m ELSE first_mgr)
          /\ IF m = "none"
             THEN Unwind(3) /\ svc' = svc
             ELSE Stay /\ svc' = "detected" /\ UNCHANGED disk

\* lines 70-76: the test for root or sudo, then subprocess.run is entered;
\* field names the counter of the action
ServiceLaunch(field) ==
    /\ svc = "detected"
    /\ UNCHANGED <<mgr, first_mgr>>
    /\ \/ /\ Unwind(2)
          /\ UNCHANGED <<cnt, last_rc, svc>>
       \/ /\ cnt' = [cnt EXCEPT ![field] = @ + 1]
          /\ last_rc' = -1
          /\ svc' = "launched"
          /\ Stay
          /\ UNCHANGED disk

\* lines 76-81 and 102-104 (110-117): subprocess.run is over; a non-zero exit
\* status is only warned about. Continue says where the caller goes on
ServiceReturn(Continue) ==
    /\ svc = "launched"
    /\ UNCHANGED <<mgr, first_mgr, cnt>>
    /\ \E r \in run_cmd_outcomes \ {"no_sudo"} :
          IF r = "raised"
          THEN Raised /\ UNCHANGED last_rc
          ELSE /\ last_rc' = (IF r = "rc0" THEN 0 ELSE 1)
               /\ svc' = "idle"
               /\ exit_code' = exit_code
               /\ Continue
               /\ UNCHANGED disk

\* service_action(action) (91-104) / restart_tor_service() (106-117), one
\* step at a time: a signal can arrive between the detection, the start of
\* the command and its end
ServiceCall(field, Continue) ==
    \/ ServiceDetect
    \/ ServiceLaunch(field)
    \/ ServiceReturn(Continue)

\* what a probe returns: an address, an empty body, or None
ProbeResults == {"ip", "empty", "none"}

\* Python truth of a probe result ("if ip:")
Truthy(r) == r = "ip"

\* ------------------------------------------------------------------- main

Counts == 0..MaxCount

\* lines 475-487: what main is asked to do
Modes == {"run", "stop", "ip", "auto_fix"}

\* main() after lines 448-473: the handlers set, the arguments parsed.
\* Without --prefer-ru the torrc and --fallback-exits are never looked at, and
\* with --stop, --ip or --auto-fix none of the other arguments is. The
\* fallback is "any" or a list here; the applier alone is run on the others
Init ==
    /\ mode \in Modes
    /\ prefer_ru \in (IF mode = "run" THEN BOOLEAN ELSE {FALSE})
    /\ file \in (IF prefer_ru THEN MainFiles ELSE {<<>>})
    /\ fallback_exits \in (IF prefer_ru THEN {FB_any, FB_de_nl} ELSE {FB_de_nl})
    /\ count \in (IF mode = "run" THEN Counts ELSE {1})
    /\ interval \in (IF mode = "run" THEN IntervalValues ELSE {IV_2})
    /\ torrc_path = "unset"
    /\ pc = "main"
    /\ InitCommon

\* lines 475, 479 and 485: --stop, --ip and --auto-fix, tested in this order
Main_Mode ==
    /\ pc = "main" /\ hpc = "none"
    /\ mode # "run"
    /\ pc' = (CASE mode = "stop" -> "stop_services"
               [] mode = "ip" -> "show_ip"
               [] OTHER -> "fix_pip")
    /\ UNCHANGED <<env, args, editor, torrc_path, hnd, phase, sched, exit_code, ip1, ip2,
                   cnt, visits, signals>>

\* lines 476 and 327: stop_services(), its service_action("stop")
Main_Stop ==
    /\ pc = "stop_services" /\ hpc = "none"
    /\ ServiceCall("stops", pc' = "stop_pkill" /\ UNCHANGED hnd)
    /\ UNCHANGED <<args, hist, torrc_path, phase, sched, ip1, ip2, visits, signals>>

\* lines 328-329: pkill -f tornet is started
Main_StopPkillStart ==
    /\ pc = "stop_pkill" /\ hpc = "none"
    /\ cnt' = [cnt EXCEPT !.pkills = @ + 1]
    /\ pc' = "stop_pkilling"
    /\ UNCHANGED <<env, args, editor, torrc_path, hnd, phase, sched, exit_code, ip1, ip2,
                   visits, signals>>

\* lines 329-331: pkill is over and the process lives on (pkill missing, or
\* no match)
Main_StopPkillEnd ==
    /\ pc = "stop_pkilling" /\ hpc = "none"
    /\ pc' = "stop_notice"
    /\ UNCHANGED <<env, args, editor, torrc_path, hnd, phase, sched, exit_code, ip1, ip2,
                   cnt, visits, signals>>

\* lines 328-331, one step at a time: a signal can arrive while pkill runs
Main_StopPkill == Main_StopPkillStart \/ Main_StopPkillEnd

\* lines 332 and 477: the notice, and main returns
Main_StopNotice ==
    /\ pc = "stop_notice" /\ hpc = "none"
    /\ pc' = "returned"
    /\ exit_code' = 0
    /\ UNCHANGED <<env, args, editor, torrc_path, hnd, phase, sched, ip1, ip2, cnt, visits,
                   signals>>

\* line 480: get_current_ip() is called; it waits for pgrep (line 221) and
\* for the answer to its request (lines 256, 266)
Main_ShowIpCall ==
    /\ pc = "show_ip" /\ hpc = "none"
    /\ pc' = "showing_ip"
    /\ UNCHANGED <<env, args, editor, torrc_path, hnd, phase, sched, exit_code, ip1, ip2,
                   cnt, visits, signals>>

\* lines 217-224 and 480-483: pgrep is found but cannot be run and the OSError
\* of subprocess.run, which lines 219-224 do not catch, ends the process with a
\* traceback and status 1; or get_current_ip() returns, print_ip is called when
\* it returned an address, and main returns. That tor is installed is not looked at
Main_ShowIpReturn ==
    /\ pc = "showing_ip" /\ hpc = "none"
    /\ \/ /\ Exit(1)
          /\ cnt' = cnt
       \/ /\ \E ip \in ProbeResults :
                cnt' = [cnt EXCEPT !.shown = @ + (IF Truthy(ip) THEN 1 ELSE 0)]
          /\ pc' = "returned"
          /\ exit_code' = 0
          /\ UNCHANGED hnd
    /\ UNCHANGED <<env, args, editor, torrc_path, phase, sched, ip1, ip2, visits, signals>>

\* lines 479-483, one step at a time: a signal can arrive while the probe waits
Main_ShowIp == Main_ShowIpCall \/ Main_ShowIpReturn

\* lines 320 and 155-185: ensure_pip(). pip is there or gets installed; a
\* failed ensurepip command ends the process through error() with 1 (the
\* SystemExit passes "except Exception"), so does a failed command of the
\* package manager, which needs root or sudo (2); install_package() detects
\* the package manager anew (line 137) and ends with 4 when it finds none
\* then, though line 172 found one; any other exception in the installation
\* by the package manager gives 5
Main_FixPip ==
    /\ pc = "fix_pip" /\ hpc = "none"
    /\ \/ \E code \in {1, 2, 4, 5} : Exit(code)
       \/ pc' = "fix_tor" /\ UNCHANGED <<hnd, exit_code>>
    /\ UNCHANGED <<env, args, editor, torrc_path, phase, sched, ip1, ip2, cnt, visits,
                   signals>>

\* lines 321-323, 187-215 and 487: ensure_requests() finds the package that
\* line 15 has imported; ensure_tor() finds tor or installs it: no package
\* manager gives 4, no root and no sudo 2, a failed command 1, any other
\* exception 7; then main returns
Main_FixTor ==
    /\ pc = "fix_tor" /\ hpc = "none"
    /\ \/ \E code \in {1, 2, 4, 7} : Exit(code)
       \/ pc' = "returned" /\ exit_code' = 0 /\ UNCHANGED hnd
    /\ UNCHANGED <<env, args, editor, torrc_path, phase, sched, ip1, ip2, cnt, visits,
                   signals>>

\* lines 489-499: the dependency and connectivity checks. The import of
\* line 494 cannot fail: line 15 has imported the package already
Main_CheckDeps ==
    /\ pc = "main" /\ hpc = "none"
    /\ mode = "run"
    /\ \/ Exit(10)
       \/ Exit(9)
       \/ pc' = "policy" /\ UNCHANGED <<hnd, exit_code>>
    /\ UNCHANGED <<env, args, editor, torrc_path, phase, sched, ip1, ip2, cnt, visits,
                   signals>>

\* lines 502-505: detect_torrc_path and the call of the applier
Main_Policy ==
    /\ pc = "policy" /\ hpc = "none"
    /\ IF prefer_ru
       THEN /\ torrc_path' \in {"path", "none"}
            /\ pc' = "ap_write"
            /\ phase' = 1
            /\ Visit("TryPreferred")
       ELSE /\ pc' = "init_env"
            /\ UNCHANGED <<torrc_path, phase, visits>>
    /\ UNCHANGED <<env, args, editor, hnd, sched, exit_code, ip1, ip2, cnt, signals>>

\* a plausible slip: the fallback written as strictly as the preferred policy
ApWrite_strict_fallback ==
    /\ pc = "ap_write" /\ hpc = "none"
    /\ SetTorExitPolicy(IF phase = 1 THEN X_ru ELSE fallback_exit_nodes(fallback_exits),
                        TRUE,
                        pc' = "ap_restart" /\ UNCHANGED hnd)
    /\ UNCHANGED <<env, args, torrc_path, phase, sched, ip1, ip2, cnt, visits, signals>>

\* lines 416 and 427-436: the policy write of the phase
ApWrite ==
    /\ pc = "ap_write" /\ hpc = "none"
    /\ SetTorExitPolicy(IF phase = 1 THEN X_ru ELSE fallback_exit_nodes(fallback_exits),
                        phase = 1,
                        pc' = "ap_restart" /\ UNCHANGED hnd)
    /\ UNCHANGED <<env, args, torrc_path, phase, sched, ip1, ip2, cnt, visits, signals>>

\* a plausible slip: the probe made straight after the restart
ApRestart_nowait ==
    /\ pc = "ap_restart" /\ hpc = "none"
    /\ ServiceCall("restarts", pc' = "ap_probe" /\ UNCHANGED hnd)
    /\ UNCHANGED <<args, hist, torrc_path, phase, sched, ip1, ip2, visits, signals>>

\* lines 417 and 438
ApRestart ==
    /\ pc = "ap_restart" /\ hpc = "none"
    /\ ServiceCall("restarts", pc' = "ap_sleep" /\ UNCHANGED hnd)
    /\ UNCHANGED <<args, hist, torrc_path, phase, sched, ip1, ip2, visits, signals>>

\* lines 420 and 439: time.sleep(6)
ApSleep ==
    /\ pc = "ap_sleep" /\ hpc = "none"
    /\ pc' = "ap_probe"
    /\ Visit(IF phase = 1 THEN "VerifyPreferred" ELSE "VerifyFallback")
    /\ UNCHANGED <<env, args, editor, torrc_path, hnd, phase, sched, exit_code, ip1, ip2,
                   cnt, signals>>

\* lines 421 and 440: get_ip_via_tor() is called and waits in requests.get
\* (line 256) for the answer
ApProbeCall ==
    /\ pc = "ap_probe" /\ hpc = "none"
    /\ cnt' = [cnt EXCEPT !.probes = @ + 1]
    /\ pc' = "ap_probing"
    /\ UNCHANGED <<env, args, editor, torrc_path, hnd, phase, sched, exit_code, ip1, ip2,
                   visits, signals>>

\* lines 421-426 and 440-444: get_ip_via_tor() returns, and what follows from it
ApProbeReturn ==
    /\ pc = "ap_probing" /\ hpc = "none"
    /\ \E r \in ProbeResults :
          IF phase = 1
          THEN /\ ip1' = r
               /\ ip2' = ip2
               /\ IF Truthy(r)
                  THEN pc' = "init_env" /\ phase' = 0 /\ Visit("Done")
                  ELSE pc' = "ap_write" /\ phase' = 2 /\ Visit("TryFallback")
          ELSE /\ ip2' = r
               /\ ip1' = ip1
               /\ pc' = "init_env" /\ phase' = 0 /\ Visit("Done")
    /\ UNCHANGED <<env, args, editor, torrc_path, hnd, sched, exit_code, cnt, signals>>

\* a plausible slip: the fallback taken whatever the preferred probe returned
ApProbe_always_fallback ==
    \/ ApProbeCall
    \/ /\ pc = "ap_probing" /\ hpc = "none"
       /\ \E r \in ProbeResults :
             IF phase = 1
             THEN /\ ip1' = r
                  /\ ip2' = ip2
                  /\ pc' = "ap_write" /\ phase' = 2 /\ Visit("TryFallback")
             ELSE /\ ip2' = r
                  /\ ip1' = ip1
                  /\ pc' = "init_env" /\ phase' = 0 /\ Visit("Done")
       /\ UNCHANGED <<env, args, editor, torrc_path, hnd, sched, exit_code, cnt, signals>>

\* a plausible slip: the fallback phase tried again after a failed probe
ApProbe_retry ==
    \/ ApProbeCall
    \/ /\ pc = "ap_probing" /\ hpc = "none"
       /\ \E r \in ProbeResults :
             /\ IF phase = 1 THEN ip1' = r /\ ip2' = ip2 ELSE ip2' = r /\ ip1' = ip1
             /\ IF Truthy(r)
                THEN pc' = "init_env" /\ phase' = 0 /\ Visit("Done")
                ELSE pc' = "ap_write" /\ phase' = 2 /\ Visit("TryFallback")
       /\ UNCHANGED <<env, args, editor, torrc_path, hnd, sched, exit_code, cnt, signals>>

\* a plausible slip: a failed fallback probe treated as a fatal error
ApProbe_fatal_fallback ==
    \/ ApProbeCall
    \/ /\ pc = "ap_probing" /\ hpc = "none"
       /\ \E r \in ProbeResults :
             IF phase = 1
             THEN /\ ip1' = r
                  /\ ip2' = ip2
                  /\ UNCHANGED <<hnd, exit_code>>
                  /\ IF Truthy(r)
                     THEN pc' = "init_env" /\ phase' = 0 /\ Visit("Done")
                     ELSE pc' = "ap_write" /\ phase' = 2 /\ Visit("TryFallback")
             ELSE /\ ip2' = r
                  /\ ip1' = ip1
                  /\ IF Truthy(r)
                     THEN /\ pc' = "init_env" /\ phase' = 0 /\ Visit("Done")
                          /\ UNCHANGED <<hnd, exit_code>>
                     ELSE Exit(1) /\ UNCHANGED <<phase, visits>>
       /\ UNCHANGED <<env, args, editor, torrc_path, sched, cnt, signals>>

\* lines 421-426 and 440-444, one step at a time: a signal can arrive while
\* the probe waits
ApProbe == ApProbeCall \/ ApProbeReturn

\* the applier alone: main at lines 502-505, with --prefer-ru, about to find
\* the torrc and call apply_prefer_ru_then_fallback, which is left to run to
\* its return or to a fatal exit
InitApplier ==
    /\ file \in MainFiles
    /\ fallback_exits \in FallbackStrings \cup FallbackValues
    /\ prefer_ru = TRUE
    /\ count = 0
    /\ interval = IV_2
    /\ torrc_path = "unset"
    /\ pc = "policy"
    /\ mode = "run"
    /\ InitCommon

NextApplier == Main_Policy \/ ApWrite \/ ApRestart \/ ApSleep \/ ApProbe

SpecApplier == InitApplier /\ [][NextApplier]_vars

\* the applier on the fallbacks that have a name here
InitApplierNamed ==
    /\ InitApplier
    /\ fallback_exits \in FallbackValues

\* the applier with the process running on: a call under way returns or
\* raises, a sleep ends
SpecApplierLive == InitApplierNamed /\ [][NextApplier]_vars /\ WF_vars(NextApplier)

\* lines 348-352 and 507: initialize_environment
InitEnv ==
    /\ pc = "init_env" /\ hpc = "none"
    /\ ServiceCall("starts", pc' = "boot_sleep" /\ UNCHANGED hnd)
    /\ UNCHANGED <<args, hist, torrc_path, phase, sched, ip1, ip2, visits, signals>>

\* line 510: time.sleep(5)
BootSleep ==
    /\ pc = "boot_sleep" /\ hpc = "none"
    /\ pc' = "loop_head"
    /\ UNCHANGED <<env, args, editor, torrc_path, hnd, phase, sched, exit_code, ip1, ip2,
                   cnt, visits, signals>>

\* lines 285-288 and 296-298: the loop test and parse_interval
LoopHead ==
    /\ pc = "loop_head" /\ hpc = "none"
    /\ \/ /\ MoreIterations
          /\ parse_interval(interval) = {}
          /\ Exit(8)
          /\ UNCHANGED sched
       \/ /\ MoreIterations
          /\ sleep_time' \in parse_interval(interval)
          /\ pc' = "loop_sleep"
          /\ UNCHANGED <<hnd, exit_code, i>>
       \/ /\ count # 0 /\ i >= count
          /\ pc' = "returned"
          /\ exit_code' = 0
          /\ UNCHANGED <<hnd, sched>>
    /\ UNCHANGED <<env, args, editor, torrc_path, phase, ip1, ip2, cnt, visits, signals>>

\* lines 289 and 299: time.sleep(sleep_time)
LoopSleep ==
    /\ pc = "loop_sleep" /\ hpc = "none"
    /\ pc' = "loop_reload"
    /\ UNCHANGED <<env, args, editor, torrc_path, hnd, phase, sched, exit_code, ip1, ip2,
                   cnt, visits, signals>>

\* line 275: service_action("reload")
LoopReload ==
    /\ pc = "loop_reload" /\ hpc = "none"
    /\ ServiceCall("reloads", pc' = "loop_wait" /\ UNCHANGED hnd)
    /\ UNCHANGED <<args, hist, torrc_path, phase, sched, ip1, ip2, visits, signals>>

\* line 276: time.sleep(2)
LoopWait ==
    /\ pc = "loop_wait" /\ hpc = "none"
    /\ pc' = "loop_probe"
    /\ UNCHANGED <<env, args, editor, torrc_path, hnd, phase, sched, exit_code, ip1, ip2,
                   cnt, visits, signals>>

\* line 277: get_current_ip() is called; it waits for pgrep (line 221) and
\* for the answer to its request (lines 256, 266)
LoopProbeCall ==
    /\ pc = "loop_probe" /\ hpc = "none"
    /\ cnt' = [cnt EXCEPT !.rprobes = @ + 1]
    /\ pc' = "loop_probing"
    /\ UNCHANGED <<env, args, editor, torrc_path, hnd, phase, sched, exit_code, ip1, ip2,
                   visits, signals>>

\* lines 217-224: pgrep is found but cannot be run and the OSError of
\* subprocess.run, which lines 219-224 do not catch and lines 286-293 (296-303)
\* neither, ends the process with a traceback and status 1; or, lines 277 and
\* 290-292 (300-302), get_current_ip() returns, print_ip is called when it
\* returned an address, and the next iteration follows
LoopProbeReturn ==
    /\ pc = "loop_probing" /\ hpc = "none"
    /\ \/ /\ Exit(1)
          /\ UNCHANGED <<cnt, i>>
       \/ /\ \E new_ip \in ProbeResults :
                cnt' = [cnt EXCEPT !.okprobes = @ + (IF new_ip = "ip" THEN 1 ELSE 0),
                                   !.reports = @ + (IF Truthy(new_ip) THEN 1 ELSE 0)]
          /\ i' = i + 1
          /\ pc' = "loop_head"
          /\ UNCHANGED <<hnd, exit_code>>
    /\ UNCHANGED <<env, args, editor, torrc_path, phase, sleep_time, ip1, ip2, visits,
                   signals>>

\* lines 277 and 290-292 (300-302), one step at a time: a signal can arrive
\* while the probe waits
LoopProbe == LoopProbeCall \/ LoopProbeReturn

\* ------------------------------------------------------ interrupt handling

\* SIGINT or SIGQUIT arrives (handlers set at lines 448-449): signal_handler
\* starts on top of whatever the process was doing, a service call or a write
\* of the torrc half done included, and begins a service call of its own. A
\* handler that was running is suspended under the new one
Interrupt ==
    /\ Running
    /\ interrupts < MaxInterrupts
    /\ interrupts' = interrupts + 1
    /\ int_at' = IF int_at # "never" THEN int_at
                 ELSE IF hpc # "none" THEN "handler" ELSE pc
    /\ hpc' = "h_stop"
    /\ hstack' = (IF hpc # "none" THEN Append(hstack, hpc) ELSE hstack)
    /\ svc' = "idle"
    /\ UNCHANGED <<mgr, first_mgr, last_rc, args, editor, torrc_path, pc, phase, sched,
                   exit_code, ip1, ip2, cnt, visits>>

\* line 327: service_action("stop")
HandlerStop ==
    /\ Running /\ hpc = "h_stop"
    /\ ServiceCall("stops", hpc' = "h_pkill" /\ UNCHANGED <<pc, hstack>>)
    /\ UNCHANGED <<args, hist, torrc_path, phase, sched, ip1, ip2, visits, signals>>

\* lines 328-329: pkill -f tornet is started
HandlerPkillStart ==
    /\ Running /\ hpc = "h_pkill"
    /\ cnt' = [cnt EXCEPT !.pkills = @ + 1]
    /\ hpc' = "h_pkilling"
    /\ UNCHANGED <<env, args, editor, torrc_path, pc, hstack, phase, sched, exit_code, ip1,
                   ip2, visits, signals>>

\* lines 329-331: pkill is over and the process lives on (pkill missing, or
\* no match)
HandlerPkillEnd ==
    /\ Running /\ hpc = "h_pkilling"
    /\ hpc' = "h_exit"
    /\ UNCHANGED <<env, args, editor, torrc_path, pc, hstack, phase, sched, exit_code, ip1,
                   ip2, cnt, visits, signals>>

\* lines 328-331, one step at a time: a signal can arrive while pkill runs
HandlerPkill == HandlerPkillStart \/ HandlerPkillEnd

\* line 329: the pattern of pkill -f tornet matches the command line of the
\* running process too. A pkill under way, started by main or by a handler,
\* sends SIGTERM to the process, which dies of it at once, whatever it was
\* doing: nothing is flushed, nothing is printed
PkillHits ==
    /\ Running
    /\ \/ pc = "stop_pkilling"
       \/ hpc = "h_pkilling"
       \/ \E k \in 1..Len(hstack) : hstack[k] = "h_pkilling"
    /\ pc' = "exited"
    /\ hpc' = "none"
    /\ hstack' = <<>>
    /\ exit_code' = -15
    /\ UNCHANGED <<env, args, editor, torrc_path, phase, sched, ip1, ip2, cnt, visits,
                   signals>>

\* a plausible slip: the handler returning instead of leaving the process
HandlerExit_returns ==
    /\ Running /\ hpc = "h_exit"
    /\ cnt' = [cnt EXCEPT !.notices = @ + 1]
    /\ hpc' = (IF hstack = <<>> THEN "none" ELSE hstack[Len(hstack)])
    /\ hstack' = (IF hstack = <<>> THEN hstack ELSE SubSeq(hstack, 1, Len(hstack) - 1))
    /\ UNCHANGED <<env, args, editor, torrc_path, pc, phase, sched, exit_code, ip1, ip2,
                   visits, signals>>

\* lines 332 and 337-338: the notices and sys.exit(0)
HandlerExit ==
    /\ Running /\ hpc = "h_exit"
    /\ cnt' = [cnt EXCEPT !.notices = @ + 1]
    /\ Unwind(0)
    /\ UNCHANGED <<env, args, hist, torrc_path, phase, sched, ip1, ip2, visits, signals>>

Next ==
    \/ Main_Mode
    \/ Main_Stop
    \/ Main_StopPkill
    \/ Main_StopNotice
    \/ Main_ShowIp
    \/ Main_FixPip
    \/ Main_FixTor
    \/ Main_CheckDeps
    \/ Main_Policy
    \/ ApWrite
    \/ ApRestart
    \/ ApSleep
    \/ ApProbe
    \/ InitEnv
    \/ BootSleep
    \/ LoopHead
    \/ LoopSleep
    \/ LoopReload
    \/ LoopWait
    \/ LoopProbe
    \/ Interrupt
    \/ HandlerStop
    \/ HandlerPkill
    \/ PkillHits
    \/ HandlerExit

Spec == Init /\ [][Next]_vars

\* main when no signal arrives
NextUninterrupted ==
    \/ Main_Mode
    \/ Main_Stop
    \/ Main_StopPkill
    \/ Main_StopNotice
    \/ Main_ShowIp
    \/ Main_FixPip
    \/ Main_FixTor
    \/ Main_CheckDeps
    \/ Main_Policy
    \/ ApWrite
    \/ ApRestart
    \/ ApSleep
    \/ ApProbe
    \/ InitEnv
    \/ BootSleep
    \/ LoopHead
    \/ LoopSleep
    \/ LoopReload
    \/ LoopWait
    \/ LoopProbe
    \/ PkillHits

\* a run of main that no SIGINT and no SIGQUIT reaches, the process running
\* on: a call under way returns or raises, a sleep ends
SpecUninterrupted == Init /\ [][NextUninterrupted]_vars /\ WF_vars(NextUninterrupted)

\* ------------------------------------------------- the torrc as a reader sees it

\* a line without its "\n"
Body(ln) ==
    IF ln # <<>> /\ ln[Len(ln)] = "\n" THEN SubSeq(ln, 1, Len(ln) - 1) ELSE ln

IsExitLine(ln) == startswith(strip(ln), KW_ExitNodes)

IsStrictLine(ln) == startswith(strip(ln), KW_StrictNodes)

IsDirective(ln) == IsExitLine(ln) \/ IsStrictLine(ln)

NonDirective(ln) == ~IsDirective(ln)

IsMarkerLine(ln) == Body(ln) = MarkerBody

\* positions of the ExitNodes, StrictNodes and marker lines among the lines ls
ExitIdx(ls) == {k \in 1..Len(ls) : IsExitLine(ls[k])}

StrictIdx(ls) == {k \in 1..Len(ls) : IsStrictLine(ls[k])}

MarkerIdx(ls) == {k \in 1..Len(ls) : IsMarkerLine(ls[k])}

SetMax(S) == CHOOSE m \in S : \A k \in S : k <= m

\* the directive lines a policy stands for
Prescribed(exit_nodes, strict) ==
    (IF strip(exit_nodes) = <<>> THEN <<>>
     ELSE <<KW_ExitNodes \o <<" ">> \o strip(exit_nodes) \o <<"\n">>>>)
      \o <<KW_StrictNodes \o <<" ", (IF strict THEN "1" ELSE "0"), "\n">>>>

\* the latest call of set_tor_exit_policy returned normally
Written == nwrites >= 1 /\ wr.st = "idle" /\ exit_code # 23

\* ------------------------------------------------------------------ claims

\* C1: after any non-empty sequence of successful policy writes the torrc holds
\* at most one ExitNodes line and exactly one StrictNodes line, both after the
\* last marker line, the ExitNodes line before the StrictNodes line.
C1_OneDirectiveEach ==
    Written =>
        LET ls == readlines(file)
            E == ExitIdx(ls)
            S == StrictIdx(ls)
            M == MarkerIdx(ls)
        IN  /\ Cardinality(E) <= 1
            /\ Cardinality(S) = 1
            /\ M # {}
            /\ \A s \in S :
                  /\ SetMax(M) < s
                  /\ \A e \in E : SetMax(M) < e /\ e < s

\* two writes over a torrc that held both directives, one of them indented
C1_Witness ==
    /\ Written
    /\ nwrites >= 2
    /\ orig = L_exit \o <<"\n">> \o L_strict \o <<"\n">>
    /\ Cardinality(ExitIdx(readlines(file))) = 1

\* C2: applying the same policy a second time leaves the torrc byte-identical
\* to what the first application left.
C2_ByteIdentical ==
    (Written /\ nwrites >= 2 /\ lastPol = prevPol) => file = prevFile

\* C3: after writing policy A and then policy B the directive lines of the
\* torrc are exactly the ones B prescribes; nothing of A remains.
C3_NoResidue ==
    (Written /\ nwrites >= 2) =>
        SelectSeq(readlines(file), IsDirective)
            = Prescribed(lastPol.exit_nodes, lastPol.strict)

\* A wrote ExitNodes {ru} strictly, B has no countries and is not strict
C3_Witness ==
    /\ Written
    /\ nwrites >= 2
    /\ prevPol = [exit_nodes |-> X_ru, strict |-> TRUE]
    /\ lastPol = [exit_nodes |-> <<>>, strict |-> FALSE]
    /\ ExitIdx(readlines(file)) = {}

\* the lines of a file as its bytes are on disk: cut after each "\n", nothing
\* decoded away and no line end translated
raw_lines(text) == keepends(text)

\* C4: after any sequence of successful policy writes every line of the
\* original torrc that is no directive is in the file as it was, byte for byte
\* (the "\n" that ends it left aside, so that a last line without one
\* counts as kept), in the original order and ahead of the latest marker.
C4_FramePreserved ==
    Written =>
        LET keep == SelectSeq(raw_lines(orig), NonDirective)
            ls == raw_lines(file)
        IN  /\ Len(ls) >= Len(keep)
            /\ \A k \in 1..Len(keep) : Body(ls[k]) = Body(keep[k])
            /\ MarkerIdx(ls) # {}
            /\ Len(keep) < SetMax(MarkerIdx(ls))

\* "ExitNodes {ru}\n"
Line_Exit_ru == KW_ExitNodes \o <<" ">> \o X_ru \o <<"\n">>

\* "ExitNodes {de},{nl}\n"
Line_Exit_de_nl == KW_ExitNodes \o <<" ">> \o X_de_nl \o <<"\n">>

\* "StrictNodes 0\n"
Line_Strict0 == KW_StrictNodes \o <<" ", "0", "\n">>

\* "StrictNodes 1\n"
Line_Strict1 == KW_StrictNodes \o <<" ", "1", "\n">>

\* the preferred probe ran and returned nothing usable
PreferredFailed == ip1 \in {"empty", "none"}

\* the fallback write has been made
FallbackWritten == PreferredFailed /\ nwrites = 2

\* the applier has returned
ApplierDone == visits["Done"] = 1

\* the exit codes of a fatal error of the torrc (20, 22, 23) or of the service
\* manager (3 none found, 2 no root and no sudo, 1 its command could not be run)
ApplierFatal == {20, 22, 23, 3, 2, 1}

\* the directive lines on disk
Directives == SelectSeq(readlines(file), IsDirective)

\* C5: when the preferred probe has failed, the applier comes to its end, be it
\* its return or a fatal error of the torrc or of the service manager; when it
\* returns it has made the fallback write, and from that write on the torrc
\* holds no ExitNodes line and StrictNodes 0 for the fallback "any" or "", and
\* ExitNodes {de},{nl} with StrictNodes 0 for "de,nl", whatever the fallback
\* restart and the fallback probe come to.
C5_FallbackOnDisk ==
    /\ []((PreferredFailed /\ pc = "exited") => exit_code \in ApplierFatal \ {20})
    /\ []((PreferredFailed /\ ApplierDone) => (nwrites = 2 /\ ip2 # "unset"))
    /\ []((FallbackWritten /\ fallback_exits \in {<<>>, FB_any, FB_de_nl}) =>
             Directives = (IF fallback_exits = FB_de_nl
                           THEN <<Line_Exit_de_nl, Line_Strict0>>
                           ELSE <<Line_Strict0>>))
    /\ [](PreferredFailed => <>(ApplierDone \/ pc = "exited"))

\* fallback "de,nl" over a torrc that held directives, the fallback probe
\* failing too, the applier returned
C5_Witness ==
    /\ ApplierDone
    /\ ip1 = "empty"
    /\ ip2 = "none"
    /\ fallback_exits = FB_de_nl
    /\ StrictIdx(readlines(orig)) # {}
    /\ Directives = <<Line_Exit_de_nl, Line_Strict0>>

\* C6: when the preferred probe returns an address the applier is done at once:
\* one write made, one restart and one probe issued and no more, no fallback
\* state entered, and the torrc keeps ExitNodes {ru} with StrictNodes 1.
C6_PreferredRetained ==
    Truthy(ip1) =>
        /\ nwrites = 1
        /\ cnt.restarts = 1
        /\ cnt.probes = 1
        /\ ip2 = "unset"
        /\ visits["TryFallback"] = 0 /\ visits["VerifyFallback"] = 0
        /\ ApplierDone
        /\ phase = 0
        /\ pc = "init_env"
        /\ wr.st = "idle"
        /\ Directives = <<Line_Exit_ru, Line_Strict1>>

\* the applier returned after a restart that ended with a non-zero status and
\* a preferred probe that returned an address
C6_Witness ==
    /\ ip1 = "ip"
    /\ last_rc = 1
    /\ pc = "init_env"
    /\ Directives = <<Line_Exit_ru, Line_Strict1>>

ApPcs == {"ap_write", "ap_restart", "ap_sleep", "ap_probe", "ap_probing"}

\* C7: the applier enters none of its states twice, makes at most two writes
\* and issues at most two restarts and two probes, makes the fallback attempt
\* exactly when the preferred probe has failed, and always comes to Done
\* unless a fatal error of the torrc or of the service manager ends the
\* process: a restart that returns a status, zero or not, and a probe that
\* returns, whatever it returns, never end it.
C7_OneFallbackNoRetry ==
    /\ [](\A st \in ApStates : visits[st] <= 1)
    /\ [](nwrites <= 2 /\ cnt.restarts <= 2 /\ cnt.probes <= 2)
    /\ [](PreferredFailed <=> visits["TryFallback"] = 1)
    /\ []((ApplierDone /\ PreferredFailed) =>
             /\ visits["VerifyFallback"] = 1
             /\ nwrites = 2 /\ cnt.restarts = 2 /\ cnt.probes = 2)
    /\ [](pc = "exited" => exit_code \in ApplierFatal)
    /\ [][(svc = "launched" /\ last_rc' \in {0, 1}) => pc' = "ap_sleep"]_vars
    /\ [][(pc = "ap_probing" /\ pc' # pc) => pc' \in {"ap_write", "init_env"}]_vars
    /\ <>(ApplierDone \/ pc = "exited")

\* Done reached through the fallback, both probes having failed and both
\* restarts having returned a non-zero status
C7_Witness ==
    /\ ApplierDone
    /\ ip1 = "none" /\ ip2 = "none"
    /\ cnt.restarts = 2
    /\ cnt.probes = 2
    /\ last_rc = 1
    /\ pc = "init_env"

LoopPcs ==
    {"loop_head", "loop_sleep", "loop_reload", "loop_wait", "loop_probe", "loop_probing"}

\* C8: a run with count > 0 that no signal reaches, that finds a service
\* manager every time and root or sudo with it, and whose reloads have
\* returned a status, ends by the return of change_ip_repeatedly after exactly
\* count cycles of one reload and one probe each: nothing a probe comes to
\* ends it earlier; an address is reported exactly when the probe of the cycle
\* returned one.
C8_ExactlyCountCycles ==
    /\ (/\ mode = "run" /\ count > 0
        /\ int_at = "never"
        /\ mgr \in {"systemctl", "service"}
        /\ cnt.reloads >= 1 /\ last_rc \in {0, 1}
        /\ exit_code # 2
        /\ pc \in {"exited", "returned"}) =>
          (pc = "returned" /\ i = count /\ cnt.reloads = count /\ cnt.rprobes = count)
    /\ count > 0 => i <= count
    /\ cnt.reports = cnt.okprobes
    /\ cnt.okprobes <= cnt.rprobes

\* C9: from the moment a signal has arrived during the sleep of an iteration,
\* no reload and no probe is issued and no iteration is counted any more; main
\* stays where it was until the process ends.
C9_InterruptEndsLoop ==
    [][int_at = "loop_sleep" =>
          /\ cnt'.reloads = cnt.reloads
          /\ cnt'.rprobes = cnt.rprobes
          /\ cnt'.okprobes = cnt.okprobes
          /\ i' = i
          /\ pc' \in {pc, "exited"}]_vars

\* the unbounded loop, interrupted in the sleep of its second iteration, and over
C9_Witness ==
    /\ int_at = "loop_sleep"
    /\ count = 0
    /\ i = 1
    /\ cnt.reloads = 1
    /\ cnt.rprobes = 1
    /\ pc = "exited"
    /\ exit_code = 0

\* C10: a malformed interval ends the run with code 8 before any service
\* action and before any write of the torrc.
C10_RejectedAtStartup ==
    exit_code = 8 =>
        /\ cnt.starts = 0 /\ cnt.restarts = 0 /\ cnt.reloads = 0
        /\ nwrites = 0

\* the handler has run to the end of the process
HandlerOver == int_at # "never" /\ pc = "exited"

\* C11: whenever the signal handler runs, it issues the stop, then the pkill,
\* then the notice, and the process ends with status 0, also when the stop
\* finds no service manager on the host.
C11_HandlerExitsZero ==
    (HandlerOver /\ mgr = "none") =>
        /\ exit_code = 0
        /\ cnt.pkills >= 1
        /\ cnt.notices >= 1

\* both probes of the applier returned nothing usable
BothProbesFailed == PreferredFailed /\ ip2 \in {"empty", "none"}

\* positions of main before the call of initialize_environment
BeforeStartPcs == {"main", "policy"} \cup ApPcs

\* C12: policy application is best-effort and runs once, ahead of the rest:
\* when both probes have failed the applier has returned all the same, and main
\* goes on to the rotation loop, which it reaches with the service start
\* issued, unless no manager (3) or neither root nor sudo (2) is found for the
\* start or the start command cannot be run (1); the applier is entered at most once; while it
\* runs, no start, no reload and no iteration has happened; the start is issued
\* only after it has returned.
C12_BestEffort ==
    /\ [](BothProbesFailed => (ApplierDone /\ phase = 0 /\ pc \notin ApPcs))
    /\ []((BothProbesFailed /\ pc = "init_env") =>
             <>(pc = "loop_head" \/ (pc = "exited" /\ exit_code \in {1, 2, 3})))
    /\ []((mode = "run" /\ pc \in {"boot_sleep", "returned"} \cup LoopPcs) =>
             cnt.starts = 1)
    /\ [](visits["TryPreferred"] <= 1 /\ visits["Done"] <= 1)
    /\ [](pc \in BeforeStartPcs =>
             (cnt.starts = 0 /\ cnt.reloads = 0 /\ cnt.rprobes = 0 /\ i = 0))
    /\ []((prefer_ru /\ cnt.starts >= 1) => (ApplierDone /\ phase = 0))
    /\ []((mode = "run" /\ prefer_ru
              /\ pc \in {"init_env", "boot_sleep"} \cup LoopPcs \cup {"returned"}) =>
             ApplierDone)

\* both probes failed, the service was started and the loop made its rounds
C12_Witness ==
    /\ ip1 = "none" /\ ip2 = "empty"
    /\ cnt.starts = 1
    /\ count >= 1
    /\ i = count
    /\ pc = "returned"

\* value of a string of decimal digits
RECURSIVE NumeralValue(_)
NumeralValue(s) ==
    IF s = <<>> THEN 0
    ELSE 10 * NumeralValue(SubSeq(s, 1, Len(s) - 1)) + DigitVal(s[Len(s)])

\* decimal digits, blanks around them allowed
IsIntegerString(s) ==
    /\ strip(s) # <<>>
    /\ \A k \in 1..Len(strip(s)) : IsDigit(strip(s)[k])

IntegerOf(s) == NumeralValue(strip(s))

\* the places where s is cut into the two ends of a range lo-hi, lo <= hi
RangeCuts(s) ==
    {k \in 1..Len(s) :
        /\ s[k] = "-"
        /\ IsIntegerString(SubSeq(s, 1, k - 1))
        /\ IsIntegerString(SubSeq(s, k + 1, Len(s)))
        /\ IntegerOf(SubSeq(s, 1, k - 1)) <= IntegerOf(SubSeq(s, k + 1, Len(s)))}

\* C13: parse_interval of an integer string n returns n; of a range lo-hi it
\* returns a value of lo..hi, and each value of lo..hi, both ends included, can
\* come out of every call whatever came out before; of any other string it
\* returns nothing and the process ends with code 8. An integer string is
\* read here as decimal digits, a range as two of them around one "-".
C13_ParseInterval ==
    /\ IsIntegerString(interval) =>
          /\ exit_code = -1
          /\ i >= 1 => sleep_time = IntegerOf(interval)
          /\ i < MaxCalls => ENABLED ParseInterval
    /\ \A k \in RangeCuts(interval) :
          LET lo == IntegerOf(SubSeq(interval, 1, k - 1))
              hi == IntegerOf(SubSeq(interval, k + 1, Len(interval)))
          IN  /\ exit_code = -1
              /\ i >= 1 => sleep_time \in lo..hi
              /\ i < MaxCalls =>
                    \A v \in lo..hi : ENABLED (ParseInterval /\ sleep_time' = v)
    /\ (~IsIntegerString(interval) /\ RangeCuts(interval) = {}) =>
          /\ i = 0
          /\ pc = "exited" => exit_code = 8
          /\ pc = "parse" => ENABLED (ParseInterval /\ exit_code' = 8)

\* the entries that are country codes as they stand
Codes == {<<"r", "u">>, <<"d", "e">>}

\* the lists of two or more codes
CodeLists == {l \in PartLists(MaxParts) : Len(l) >= 2 /\ \A k \in 1..Len(l) : l[k] \in Codes}

\* "c1,c2,..."
RECURSIVE CommaList(_)
CommaList(l) ==
    IF Len(l) = 1 THEN l[1] ELSE l[1] \o <<",">> \o CommaList(Tail(l))

\* "{c1},{c2},..."
RECURSIVE BracedList(_)
BracedList(l) ==
    IF Len(l) = 1 THEN <<"{">> \o l[1] \o <<"}">>
    ELSE <<"{">> \o l[1] \o <<"}", ",">> \o BracedList(Tail(l))

\* C14: for every list of two or more country codes given as the fallback, the
\* ExitNodes line of the fallback write is "ExitNodes {c1},{c2},...": each code
\* in braces of its own, one comma and no blank between the groups, the codes
\* in the order given.
C14_BracedInOrder ==
    \A l \in CodeLists :
        (FallbackWritten /\ fallback_exits = CommaList(l)) =>
            LET ls == readlines(file)
            IN  /\ Cardinality(ExitIdx(ls)) = 1
                /\ \A k \in ExitIdx(ls) :
                      ls[k] = KW_ExitNodes \o <<" ">> \o BracedList(l) \o <<"\n">>

\* "de,ru" written as the fallback: the order given, not the alphabetical one
C14_Witness ==
    /\ FallbackWritten
    /\ fallback_exits = <<"d", "e", ",", "r", "u">>
    /\ \E k \in ExitIdx(readlines(file)) :
          readlines(file)[k] = KW_ExitNodes \o <<" ", "{", "d", "e", "}", ",", "{", "r", "u", "}", "\n">>

\* service commands run so far
Commands(c) == c.starts + c.stops + c.reloads + c.restarts

\* C15: a service action that finds no manager ends the process with code 3,
\* a code no other failure has, and runs no command; a service command that
\* was run and returned a non-zero status does not end the process: the
\* caller goes on.
C15_NoManagerFatalNonZeroWarned ==
    /\ [](exit_code = 3 => mgr = "none")
    /\ [](mgr = "none" => (pc = "exited" /\ exit_code = 3))
    /\ [][mgr' = "none" => cnt' = cnt]_vars
    /\ [](Commands(cnt) >= 1 => (mgr # "unset" /\ first_mgr \in {"systemctl", "service"}))
    /\ [][Commands(cnt') = Commands(cnt) + 1 => mgr \in {"systemctl", "service"}]_vars
    /\ [][(last_rc # 1 /\ last_rc' = 1) =>
              /\ mgr' \in {"systemctl", "service"}
              /\ exit_code' = exit_code
              /\ pc' # "exited"
              /\ (hpc = "none" => pc' # pc)
              /\ (hpc # "none" => (pc' = pc /\ hpc' = "h_pkill"))]_vars

\* exit codes of set_tor_exit_policy
PolicyErrors == {20, 22, 23}

\* C16: set_tor_exit_policy ends the process with 20 when there is no torrc
\* path and with 22 or 23 only when there is one; the failing call leaves the
\* torrc untouched for 20 and 22; after 20, 22 or 23 the applier does nothing
\* more: the restart and the probe of the phase are not made.
C16_PolicyErrorsFatal ==
    /\ [](torrc_path = "none" => (pc \in {"ap_write", "exited"} /\ nwrites = 0))
    /\ []((torrc_path = "none" /\ pc = "exited") <=> exit_code = 20)
    /\ [](exit_code \in {22, 23} => torrc_path = "path")
    /\ [](exit_code \in PolicyErrors =>
             /\ pc = "exited"
             /\ cnt.restarts = nwrites
             /\ cnt.probes = nwrites)
    /\ [][exit_code' \in {20, 22} => file' = file]_vars
    /\ [][(exit_code \in PolicyErrors) => (cnt' = cnt /\ file' = file /\ pc' = pc)]_vars

\* the fallback write failed after the file had been opened for writing: the
\* torrc is empty, and only the restart and the probe of the first phase were made
C16_Witness ==
    /\ exit_code = 23
    /\ nwrites = 1
    /\ file = <<>>
    /\ cnt.restarts = 1
    /\ cnt.probes = 1

\* bootstrap waits completed: the applier enters the verify state of a phase
\* when the sleep of that phase is over
Waits == visits["VerifyPreferred"] + visits["VerifyFallback"]

\* the same, one step later
WaitsNext == visits'["VerifyPreferred"] + visits'["VerifyFallback"]

\* probes that have returned
ProbesReturned ==
    (IF ip1 = "unset" THEN 0 ELSE 1) + (IF ip2 = "unset" THEN 0 ELSE 1)

\* C17: in each phase of the applier the order is write, restart, wait, probe:
\* a probe is issued only when a restart and then a whole wait have followed
\* the latest write, a wait only after the restart of the phase, a restart only
\* after the write of the phase, and the next write only after the probe has
\* returned.
C17_WriteRestartWaitProbe ==
    /\ [](/\ ProbesReturned <= cnt.probes
          /\ cnt.probes <= ProbesReturned + 1
          /\ (cnt.probes = ProbesReturned + 1 <=> pc = "ap_probing"))
    /\ [](/\ cnt.probes <= Waits
          /\ Waits <= cnt.restarts
          /\ cnt.restarts <= nwrites
          /\ nwrites <= cnt.probes + 1)
    /\ [][cnt'.probes = cnt.probes + 1 =>
              /\ Waits = cnt.probes + 1 /\ cnt.restarts = Waits /\ nwrites = cnt.restarts
              /\ svc = "idle" /\ wr.st = "idle"]_vars
    /\ [][WaitsNext = Waits + 1 =>
              /\ cnt.restarts = Waits + 1 /\ nwrites = cnt.restarts
              /\ svc = "idle" /\ wr.st = "idle"]_vars
    /\ [][cnt'.restarts = cnt.restarts + 1 =>
              (nwrites = cnt.restarts + 1 /\ wr.st = "idle")]_vars
    /\ [][(wr.st = "idle" /\ wr'.st # "idle") =>
              (cnt.probes = nwrites /\ ProbesReturned = nwrites /\ svc = "idle")]_vars
    /\ [][nwrites' = nwrites + 1 => (cnt.probes = nwrites /\ ProbesReturned = nwrites)]_vars

\* the fallback probe made, after the second write, restart and wait
C17_Witness ==
    /\ cnt.probes = 2
    /\ Waits = 2
    /\ cnt.restarts = 2
    /\ nwrites = 2
    /\ ip2 # "unset"

\* C18: the service manager is detected once: every service action of a run
\* uses the manager the first detection returned, also when the tools on the
\* host change while the process runs.
C18_ManagerDetectedOnce ==
    (first_mgr \in {"systemctl", "service"} /\ mgr \in {"systemctl", "service"}) =>
        mgr = first_mgr

\* C19: when the applier has returned, the torrc is strict (ExitNodes {ru},
\* StrictNodes 1) exactly when the preferred probe returned an address; when
\* that probe failed the torrc has StrictNodes 0 and no StrictNodes 1, whatever
\* the fallback was and whatever the fallback probe returned.
C19_StrictIffVerified ==
    ApplierDone =>
        LET ls == readlines(file)
            dirs == SelectSeq(ls, IsDirective)
        IN  /\ Truthy(ip1) <=> (\E k \in StrictIdx(ls) : ls[k] = Line_Strict1)
            /\ Truthy(ip1) => dirs = <<Line_Exit_ru, Line_Strict1>>
            /\ PreferredFailed =>
                  /\ ip2 # "unset"
                  /\ \A k \in StrictIdx(ls) : ls[k] = Line_Strict0
                  /\ dirs # <<>> /\ dirs[Len(dirs)] = Line_Strict0

\* the preferred probe failed, the fallback is "ru" and its probe succeeded:
\* the same exit nodes as before, no longer strict
C19_Witness ==
    /\ ApplierDone
    /\ ip1 = "empty"
    /\ ip2 = "ip"
    /\ fallback_exits = <<"r", "u">>
    /\ SelectSeq(readlines(file), IsDirective) = <<Line_Exit_ru, Line_Strict0>>

\* what an entry of the fallback stands for: trimmed, in small letters
Normal(part) ==
    CASE part = <<" ", "N", "L", " ">> -> <<"n", "l">>
      [] part = <<" ", "A", "n", "y", " ">> -> <<"a", "n", "y">>
      [] OTHER -> part

NotEmpty(part) == part # <<>>

\* the codes a list of entries stands for
NormalCodes(l) == SelectSeq([k \in 1..Len(l) |-> Normal(l[k])], NotEmpty)

\* the fallback is the word any, or nothing at all
MeansAny(l) == Len(l) = 1 /\ Normal(l[1]) \in {<<"a", "n", "y">>, <<>>}

\* "{" directly followed by "}"
HasEmptyGroup(ln) == \E k \in 1..(Len(ln) - 1) : ln[k] = "{" /\ ln[k + 1] = "}"

\* C20: for every fallback string the fallback write leaves no empty brace
\* group and no ExitNodes line without a value: the entries are trimmed and
\* put in small letters, the empty ones dropped; the word any, in any case and
\* with blanks around it, and a fallback with no codes at all give no
\* ExitNodes line; StrictNodes is 0 in every case.
C20_FallbackNormalised ==
    FallbackWritten =>
        LET ls == readlines(file)
            dirs == SelectSeq(ls, IsDirective)
        IN  /\ \A k \in ExitIdx(ls) :
                  /\ ~HasEmptyGroup(ls[k])
                  /\ strip(ls[k]) # KW_ExitNodes
            /\ fallback_exits \in {FB_any, FB_ANY_padded, FB_commas} =>
                  dirs = <<Line_Strict0>>
            /\ \A l \in PartLists(MaxParts) :
                  fallback_exits = CommaList(l) =>
                      dirs = (IF MeansAny(l) \/ NormalCodes(l) = <<>>
                              THEN <<Line_Strict0>>
                              ELSE <<KW_ExitNodes \o <<" ">> \o BracedList(NormalCodes(l))
                                        \o <<"\n">>,
                                     Line_Strict0>>)

====
